---- MODULE Spec2Model ----
\* Model of the agentic policy chatbot: the LangGraph pipeline
\* router -> (policy_agent ->) finish, its identifier extractor, and the two
\* request boundaries (FastAPI /chat in main.py, console loop in
\* pilotChatLifeBot.py).
\*
\* A text (Python str) is a sequence of one-character strings, so that strip(),
\* lower(), upper(), the substring test and the regular expression are
\* computed character by character.

EXTENDS Integers, Sequences, FiniteSets, TLC

VARIABLES
    variant,      \* "web" (main.py) or "console" (pilotChatLifeBot.py)
    llm_mode,     \* "free": any completion per call; "stub": a deterministic stub
    request,      \* the raw message of the request in flight
    pc,           \* position of the request: idle, a graph node, __end__, raised, exited, ...
    state,        \* the State dataclass instance of the request in flight
    policy_no,    \* local of policy_agent: the extractor's result
    exc,          \* the exception in flight (its text), None when there is none
    stub,         \* completions the deterministic stub has produced so far, by prompt
    llm_calls,    \* llm.invoke calls of the request in flight, in order
    api_calls,    \* call_legacy_api calls of the request in flight, in order
    trace,        \* graph nodes run by the request in flight, in order
    answer_by,    \* the node that made the last write to state.answer
    response,     \* what the boundary produced for the last finished request
    history,      \* finished requests, in order
    reqs,         \* concurrent /chat requests: each request's position and locals
    heap          \* the State instances of the concurrent requests, by owner

vars == <<variant, llm_mode, request, pc, state, policy_no, exc, stub, llm_calls,
          api_calls, trace, answer_by, response, history, reqs, heap>>

\* ---------------------------------------------------------------------
\* Bounds
\* ---------------------------------------------------------------------
\* Requests served by one boundary.
MaxTurns == 2
\* Longest text of the exhaustive extractor inputs.
MaxLen == 7
\* Requests in flight at the same time.
MaxRequests == 2

\* ---------------------------------------------------------------------
\* Texts
\* ---------------------------------------------------------------------
\* Python None: no text equals it (texts hold single characters only).
None == <<"<None>">>

UpperChars == <<"A","B","C","D","E","F","G","H","I","J","K","L","M",
                "N","O","P","Q","R","S","T","U","V","W","X","Y","Z">>
LowerChars == <<"a","b","c","d","e","f","g","h","i","j","k","l","m",
                "n","o","p","q","r","s","t","u","v","w","x","y","z">>
DigitChars == <<"0","1","2","3","4","5","6","7","8","9">>

Range(s) == {s[i] : i \in 1..Len(s)}

IsUpper(c) == c \in Range(UpperChars)
IsLower(c) == c \in Range(LowerChars)
IsDigit(c) == c \in Range(DigitChars)
IsSpace(c) == c \in {" ", "\n", "\t"}

IndexIn(c, s) == CHOOSE i \in 1..Len(s) : s[i] = c

LowerChar(c) == IF IsUpper(c) THEN LowerChars[IndexIn(c, UpperChars)] ELSE c
UpperChar(c) == IF IsLower(c) THEN UpperChars[IndexIn(c, LowerChars)] ELSE c

\* str.lower()
Lower(text) == IF text = <<>> THEN <<>>
               ELSE [i \in 1..Len(text) |-> LowerChar(text[i])]

\* str.upper()
Upper(text) == IF text = <<>> THEN <<>>
               ELSE [i \in 1..Len(text) |-> UpperChar(text[i])]

\* str.strip(): drop leading and trailing whitespace.
Strip(text) ==
    LET keep == {i \in 1..Len(text) : ~IsSpace(text[i])}
    IN  IF keep = {} THEN <<>>
        ELSE LET a == CHOOSE i \in keep : \A j \in keep : i <= j
                 b == CHOOSE i \in keep : \A j \in keep : i >= j
             IN  SubSeq(text, a, b)

\* sub in text
Contains(text, sub) ==
    \E i \in 1..(Len(text) - Len(sub) + 1) : SubSeq(text, i, i + Len(sub) - 1) = sub

\* ---------------------------------------------------------------------
\* Identifier extractor: re.search(r"\b([A-Z0-9]{6})\b", text, flags=re.I)
\* ---------------------------------------------------------------------
\* The {6} of the pattern.
IdLen == 6

\* [A-Z0-9] under re.I
InClass(c) == IsUpper(c) \/ IsLower(c) \/ IsDigit(c)

\* \w
IsWordChar(c) == InClass(c) \/ c = "_"

\* Positions are 1..Len(text)+1; position p lies just before character p.
WordAt(text, p) == p \in 1..Len(text) /\ IsWordChar(text[p])

\* \b at position p
BoundaryAt(text, p) == WordAt(text, p - 1) # WordAt(text, p)

\* The pattern without its closing \b.
MatchAtNoTrailingBoundary(text, p) ==
    /\ BoundaryAt(text, p)
    /\ p + IdLen - 1 <= Len(text)
    /\ \A k \in 0..(IdLen - 1) : InClass(text[p + k])

\* The pattern matches starting at position p.
MatchAt(text, p) ==
    /\ BoundaryAt(text, p)
    /\ p + IdLen - 1 <= Len(text)
    /\ \A k \in 0..(IdLen - 1) : InClass(text[p + k])
    /\ BoundaryAt(text, p + IdLen)

\* re.search scans the start positions left to right; 0 when none matches.
RECURSIVE SearchFrom(_, _)
SearchFrom(text, p) ==
    IF p > Len(text) + 1 THEN 0
    ELSE IF MatchAt(text, p) THEN p
    ELSE SearchFrom(text, p + 1)

extract_policy_number(text) ==
    LET m == SearchFrom(text, 1)
    IN  IF m # 0 THEN Upper(SubSeq(text, m, m + IdLen - 1)) ELSE None

\* ---------------------------------------------------------------------
\* Fixed texts of the program
\* ---------------------------------------------------------------------
Yes == <<"y","e","s">>
Quit == <<"q","u","i","t">>
Exit == <<"e","x","i","t">>
\* "Sorry, I couldn't find a policy number in your request."
Apology == <<"S","o","r","r","y",","," ","I"," ","c","o","u","l","d","n","'","t"," ","f","i","n","d"," ","a"," ","p","o","l","i","c","y"," ","n","u","m","b","e","r"," ","i","n"," ","y","o","u","r"," ","r","e","q","u","e","s","t",".">>
\* "Error: "
ErrorPrefix == <<"E","r","r","o","r",":"," ">>
\* "\nUnexpected error: " (the console's error line, without its emoji)
ConsoleErrorPrefix == <<"\n","U","n","e","x","p","e","c","t","e","d"," ","e","r","r","o","r",":"," ">>
\* "Bye!" (the console's farewell line, without its emoji)
Bye == <<"B","y","e","!">>

\* ---------------------------------------------------------------------
\* Inputs
\* ---------------------------------------------------------------------
\* "What is the weather today?"
ScenarioA == <<"W","h","a","t"," ","i","s"," ","t","h","e"," ","w","e","a","t","h","e","r"," ","t","o","d","a","y","?">>
\* "Tell me about policy ABC123"
ScenarioB == <<"T","e","l","l"," ","m","e"," ","a","b","o","u","t"," ","p","o","l","i","c","y"," ","A","B","C","1","2","3">>
\* "yes please help"
ScenarioC == <<"y","e","s"," ","p","l","e","a","s","e"," ","h","e","l","p">>
\* "abc123"
BareId == <<"a","b","c","1","2","3">>
\* " Quit"
QuitRaw == <<" ","Q","u","i","t">>

Messages == {ScenarioA, ScenarioB, ScenarioC, BareId, QuitRaw}

\* Completions the text completion service may return.
ReplyNo == <<"n","o">>
ReplyBlank == <<" ","\n">>
ReplyYesUpper == <<" ","Y","E","S"," ">>
ReplyYesCall == <<"y","e","s",","," ","c","a","l","l"," ","t","h","e"," ","s","y","s","t","e","m">>
ReplyYesterday == <<"Y","e","s","t","e","r","d","a","y">>
ReplyGrounded == <<" ","R","K","\n">>
ReplyHello == <<" ","h","e","l","l","o"," ">>
\* The text of the exception a failing collaborator raises.
ExcText == <<"d","o","w","n">>

Replies(node) ==
    CASE node = "router" ->
            {ReplyNo, ReplyBlank, Yes, ReplyYesUpper, ReplyYesCall, ReplyYesterday}
      [] node = "policy_agent" -> {ReplyGrounded, <<>>, Yes}
      [] OTHER -> {ReplyHello, <<>>}

\* Characters of the exhaustive extractor inputs: a lower-case letter, an
\* upper-case letter, a digit, a word character outside the class, a
\* non-word character.
ExtractAlphabet == {"a", "Z", "7", "_", " "}

RECURSIVE TextsUpTo(_)
TextsUpTo(n) ==
    IF n = 0 THEN {<<>>}
    ELSE LET shorter == TextsUpTo(n - 1)
         IN  shorter \cup {Append(t, c) : t \in {s \in shorter : Len(s) = n - 1},
                                          c \in ExtractAlphabet}

ExtractInputs == TextsUpTo(MaxLen) \cup Messages

\* ---------------------------------------------------------------------
\* Dummy legacy API and its serialisation
\* ---------------------------------------------------------------------
\* main.py: the record is fixed, the argument is ignored.
call_legacy_api_web(policy_number) ==
    [policy_number |-> <<"P","1","2","3","4">>,
     holder |-> <<"R","K">>,
     policy_type |-> <<"L","i","f","e"," ","i","n","s","u","r","a","n","c","e">>,
     sum_insured |-> 275000,
     effective_date |-> <<"2","0","2","3","-","0","6","-","0","1">>,
     expiry_date |-> <<"2","0","5","0","-","0","6","-","0","1">>,
     coverage |-> << [type |-> <<"D","e","a","t","h">>, limit |-> 200000],
                     [type |-> <<"T","P","D">>, limit |-> 50000],
                     [type |-> <<"C","r","i","t","i","c","a","l"," ","I","l","l","n","e","s","s">>,
                      limit |-> 50000] >>]

\* pilotChatLifeBot.py: the record carries the number it was asked for.
call_legacy_api_console(policy_number) ==
    [policy_number |-> policy_number,
     holder |-> <<"J","a","n","e"," ","D","o","e">>,
     policy_type |-> <<"h","o","m","e"," ","i","n","s","u","r","a","n","c","e">>,
     sum_insured |-> 275000,
     effective_date |-> <<"2","0","2","3","-","0","6","-","0","1">>,
     expiry_date |-> <<"2","0","2","4","-","0","6","-","0","1">>,
     coverage |-> << [type |-> <<"f","i","r","e">>, limit |-> 200000],
                     [type |-> <<"t","h","e","f","t">>, limit |-> 50000],
                     [type |-> <<"n","a","t","u","r","a","l","_","d","i","s","a","s","t","e","r">>,
                      limit |-> 50000] >>]

call_legacy_api(policy_number) ==
    IF variant = "web" THEN call_legacy_api_web(policy_number)
    ELSE call_legacy_api_console(policy_number)

\* Decimal digits of a natural number.
RECURSIVE IntText(_)
IntText(n) ==
    IF n < 10 THEN <<DigitChars[n + 1]>>
    ELSE Append(IntText(n \div 10), DigitChars[(n % 10) + 1])

\* json.dumps(api_resp, indent=2): keys in insertion order, strings quoted,
\* numbers in decimal; the indentation whitespace is left out.
Dumps(rec) ==
    LET Str(t) == <<"\"">> \o t \o <<"\"">>
        KV(key, value) == Str(key) \o <<":", " ">> \o value
        Item(c) == <<"{">> \o KV(<<"t","y","p","e">>, Str(c.type)) \o <<",">>
                   \o KV(<<"l","i","m","i","t">>, IntText(c.limit)) \o <<"}">>
        Items == Item(rec.coverage[1]) \o <<",">> \o Item(rec.coverage[2])
                 \o <<",">> \o Item(rec.coverage[3])
    IN  <<"{">>
        \o KV(<<"p","o","l","i","c","y","_","n","u","m","b","e","r">>, Str(rec.policy_number)) \o <<",">>
        \o KV(<<"h","o","l","d","e","r">>, Str(rec.holder)) \o <<",">>
        \o KV(<<"p","o","l","i","c","y","_","t","y","p","e">>, Str(rec.policy_type)) \o <<",">>
        \o KV(<<"s","u","m","_","i","n","s","u","r","e","d">>, IntText(rec.sum_insured)) \o <<",">>
        \o KV(<<"e","f","f","e","c","t","i","v","e","_","d","a","t","e">>, Str(rec.effective_date)) \o <<",">>
        \o KV(<<"e","x","p","i","r","y","_","d","a","t","e">>, Str(rec.expiry_date)) \o <<",">>
        \o KV(<<"c","o","v","e","r","a","g","e">>, <<"[">> \o Items \o <<"]">>)
        \o <<"}">>

\* ---------------------------------------------------------------------
\* Turn state and prompts
\* ---------------------------------------------------------------------
\* The dataclass defaults of State.
StateDefaults == [user_message |-> <<>>, last_api_result |-> None, answer |-> None]

\* A State that is reused from one request to the next and accumulates the
\* conversation instead of being constructed afresh.
NewStateCarry(message) ==
    [StateDefaults EXCEPT !.user_message = state.user_message \o message]

\* State(user_message=...): the other fields take the dataclass defaults.
NewState(message) == [StateDefaults EXCEPT !.user_message = message]

\* A prompt is the ordered list of role-tagged messages handed to llm.invoke.
\* The literal text of a prompt is named by its template; "text" is the
\* text the f-string embeds in it.
HumanMessage(template, text) == [role |-> "user", template |-> template, text |-> text]
SystemMessage(template, text) == [role |-> "system", template |-> template, text |-> text]

RouterPrompt(s) == << HumanMessage("routing", s.user_message) >>

\* A policy_agent that hands over its two messages in reverse order.
PolicyPromptUserFirst(s, api_resp) ==
    << HumanMessage("policy_json", Dumps(api_resp)),
       SystemMessage("policy_record", s.user_message) >>

PolicyPrompt(s, api_resp) ==
    << SystemMessage("policy_record", s.user_message),
       HumanMessage("policy_json", Dumps(api_resp)) >>

FinishPrompt(s) ==
    << SystemMessage("friendly_chatbot", <<>>),
       HumanMessage("verbatim", s.user_message) >>

\* ---------------------------------------------------------------------
\* Text completion service
\* ---------------------------------------------------------------------
\* llm.invoke returns a completion or raises.
Outcomes(node) ==
    {[ok |-> TRUE, content |-> r] : r \in Replies(node)}
        \cup {[ok |-> FALSE, content |-> ExcText]}

\* What llm.invoke may do with this prompt: anything, unless the service is a
\* deterministic stub that has seen the prompt before.
LlmOutcomes(node, messages) ==
    LET seen == {e \in stub : e.messages = messages}
    IN  IF llm_mode = "stub" /\ seen # {}
        THEN {e.out : e \in seen}
        ELSE Outcomes(node)

Memo(messages, out) ==
    IF llm_mode = "stub" THEN stub \cup {[messages |-> messages, out |-> out]}
    ELSE stub

LlmCall(node, messages, out) == [node |-> node, messages |-> messages, out |-> out]

\* ---------------------------------------------------------------------
\* Graph nodes and edges
\* ---------------------------------------------------------------------
\* A router_node that also normalises the user's message in place.
router_node_normalising(s, content) ==
    [s EXCEPT !.answer = Lower(Strip(content)), !.user_message = Lower(@)]

\* A router_node that keeps its signal to itself and leaves answer unset.
router_node_no_scratch(s, content) == s

\* router_node's write: the completion, stripped and lower-cased.
router_node(s, content) == [s EXCEPT !.answer = Lower(Strip(content))]

\* A conditional edge that tests the signal for equality with "yes".
route_exact(s) == IF Lower(s.answer) = Yes THEN "policy_agent" ELSE "finish"

\* The conditional edge out of router.
route(s) == IF Contains(Lower(s.answer), Yes) THEN "policy_agent" ELSE "finish"

\* A graph in which policy_agent is wired straight to END.
EdgeSkipFinish(node) == "__end__"

\* A graph in which finish is wired back to router.
EdgeCycle(node) == IF node = "policy_agent" THEN "finish" ELSE "router"

\* The unconditional edges: policy_agent -> finish, finish -> END.
Edge(node) == IF node = "policy_agent" THEN "finish" ELSE "__end__"

\* A policy_agent without its "no policy number" guard.
ExtractionMissIgnored(no) == FALSE

\* "if not policy_no": None (or an empty text) is falsy.
ExtractionMiss(no) == no = None \/ no = <<>>

\* A write of the completion as it came, not stripped.
WithAnswerRaw(s, content) == [s EXCEPT !.answer = content]

\* A write that also keeps the completion in last_api_result.
WithAnswerAndResult(s, content) ==
    [s EXCEPT !.answer = Strip(content), !.last_api_result = Strip(content)]

\* policy_agent's and finish_node's write: the completion, stripped.
WithAnswer(s, content) == [s EXCEPT !.answer = Strip(content)]

\* A finish_node without its guard.
NeedsAnswerAlways(s) == TRUE

\* A finish_node guarded by "if not state.answer".
NeedsAnswerFalsy(s) == s.answer = None \/ s.answer = <<>>

\* finish_node's guard.
NeedsAnswer(s) == s.answer = None

\* A graph that swallows a node's exception and carries on to finish.
OnRaiseContinue(node) == "finish"

\* An exception raised inside a node leaves the graph: no node catches it.
OnRaise(node) == "raised"

\* llm.invoke(messages) made by a node, with outcome out.
Invoke(node, messages, out) ==
    /\ out \in LlmOutcomes(node, messages)
    /\ llm_calls' = Append(llm_calls, LlmCall(node, messages, out))
    /\ stub' = Memo(messages, out)

\* The node returns state s2 and the graph follows the edge to next.
Return(node, s2, next) ==
    /\ state' = s2
    /\ answer_by' = node
    /\ pc' = next
    /\ exc' = exc

\* The node's llm.invoke raised.
Raise(node, out) ==
    /\ pc' = OnRaise(node)
    /\ exc' = out.content
    /\ UNCHANGED <<state, answer_by>>

RouterNode ==
    /\ pc = "router"
    /\ trace' = Append(trace, "router")
    /\ \E out \in Outcomes("router") :
        /\ Invoke("router", RouterPrompt(state), out)
        /\ IF out.ok
           THEN LET s2 == router_node(state, out.content)
                IN  Return("router", s2, route(s2))
           ELSE Raise("router", out)
    /\ UNCHANGED <<reqs, heap, variant, llm_mode, request, policy_no, api_calls, response, history>>

PolicyAgent ==
    /\ pc = "policy_agent"
    /\ trace' = Append(trace, "policy_agent")
    /\ LET no == extract_policy_number(state.user_message)
       IN  /\ policy_no' = no
           /\ IF ExtractionMiss(no)
              THEN /\ Return("policy_agent", [state EXCEPT !.answer = Apology],
                           Edge("policy_agent"))
                   /\ UNCHANGED <<stub, llm_calls, api_calls>>
              ELSE LET api_resp == call_legacy_api(no)
                   IN  /\ api_calls' = Append(api_calls, no)
                       /\ \E out \in Outcomes("policy_agent") :
                           /\ Invoke("policy_agent", PolicyPrompt(state, api_resp), out)
                           /\ IF out.ok
                              THEN Return("policy_agent",
                                          WithAnswer(state, out.content),
                                          Edge("policy_agent"))
                              ELSE Raise("policy_agent", out)
    /\ UNCHANGED <<reqs, heap, variant, llm_mode, request, response, history>>

FinishNode ==
    /\ pc = "finish"
    /\ trace' = Append(trace, "finish")
    /\ IF NeedsAnswer(state)
       THEN \E out \in Outcomes("finish") :
               /\ Invoke("finish", FinishPrompt(state), out)
               /\ IF out.ok
                  THEN Return("finish", WithAnswer(state, out.content), Edge("finish"))
                  ELSE Raise("finish", out)
       ELSE /\ pc' = Edge("finish")
            /\ UNCHANGED <<state, answer_by, exc, stub, llm_calls>>
    /\ UNCHANGED <<reqs, heap, variant, llm_mode, request, policy_no, api_calls, response, history>>

\* ---------------------------------------------------------------------
\* Request boundary: chat() of main.py, chat_loop() of pilotChatLifeBot.py
\* ---------------------------------------------------------------------
\* The text the boundary hands to State(user_message=...).
UserInput(raw) == IF variant = "console" THEN Strip(raw) ELSE raw

\* The console loop ends on "quit" / "exit".
IsQuit(raw) == variant = "console" /\ Lower(UserInput(raw)) \in {Quit, Exit}

\* The boundary's output for a run that returned s.
Reply(s) ==
    [ok |-> TRUE, status |-> IF variant = "web" THEN 200 ELSE 0, body |-> s.answer]

\* The boundary's output for a run that raised e.
ErrorReply(e) ==
    IF variant = "web"
    THEN [ok |-> FALSE, status |-> 500, body |-> ErrorPrefix \o e]
    ELSE [ok |-> FALSE, status |-> 0, body |-> ConsoleErrorPrefix \o e]

Finished(out) == [message |-> request, trace |-> trace, ok |-> out.ok, body |-> out.body]

\* A message arrives: the boundary builds a fresh State and enters the graph.
Receive ==
    /\ pc = "idle"
    /\ Len(history) < MaxTurns
    /\ \E raw \in Messages :
        IF IsQuit(raw)
        THEN /\ pc' = "exited"
             /\ response' = [ok |-> TRUE, status |-> 0, body |-> Bye]
             /\ UNCHANGED <<request, state, policy_no, llm_calls, api_calls, trace,
                            answer_by>>
        ELSE /\ pc' = "router"
             /\ state' = NewState(UserInput(raw))
             /\ request' = raw
             /\ response' = response
             /\ policy_no' = None
             /\ llm_calls' = <<>>
             /\ api_calls' = <<>>
             /\ trace' = <<>>
             /\ answer_by' = "none"
    /\ UNCHANGED <<reqs, heap, variant, llm_mode, exc, stub, history>>

\* graph.invoke returned: the boundary reads result["answer"] and replies.
Respond ==
    /\ pc = "__end__"
    /\ response' = Reply(state)
    /\ history' = Append(history, Finished(Reply(state)))
    /\ pc' = "idle"
    /\ UNCHANGED <<reqs, heap, variant, llm_mode, request, state, policy_no, exc, stub,
                   llm_calls, api_calls, trace, answer_by>>

\* graph.invoke raised: the boundary's except clause reports the error.
Catch ==
    /\ pc = "raised"
    /\ response' = ErrorReply(exc)
    /\ history' = Append(history, Finished(ErrorReply(exc)))
    /\ exc' = None
    /\ pc' = "idle"
    /\ UNCHANGED <<reqs, heap, variant, llm_mode, request, state, policy_no, stub,
                   llm_calls, api_calls, trace, answer_by>>

\* ---------------------------------------------------------------------
\* Specifications
\* ---------------------------------------------------------------------
InitCommon ==
    /\ variant \in {"web", "console"}
    /\ request = None
    /\ pc = "idle"
    /\ state = StateDefaults
    /\ policy_no = None
    /\ exc = None
    /\ stub = {}
    /\ llm_calls = <<>>
    /\ api_calls = <<>>
    /\ trace = <<>>
    /\ answer_by = "none"
    /\ response = [ok |-> TRUE, status |-> 0, body |-> <<>>]
    /\ history = <<>>
    /\ reqs = <<>>
    /\ heap = <<>>

\* The completion service is free to answer anything on every call.
Init == InitCommon /\ llm_mode = "free"

\* The completion service is a deterministic stub.
InitStub == InitCommon /\ llm_mode = "stub"

Next == Receive \/ RouterNode \/ PolicyAgent \/ FinishNode \/ Respond \/ Catch

Spec == Init /\ [][Next]_vars

SpecStub == InitStub /\ [][Next]_vars

\* Execution is synchronous and every collaborator call returns or raises:
\* a node that has been entered runs to its end.
Fairness == WF_vars(RouterNode) /\ WF_vars(PolicyAgent) /\ WF_vars(FinishNode)

\* One pipeline run on its own: app.invoke(State(user_message=...)), from the
\* graph's entry point to END or to the exception leaving invoke.
InitRun ==
    /\ variant \in {"web", "console"}
    /\ llm_mode = "free"
    /\ request \in {raw \in Messages : ~IsQuit(raw)}
    /\ pc = "router"
    /\ state = NewState(UserInput(request))
    /\ policy_no = None
    /\ exc = None
    /\ stub = {}
    /\ llm_calls = <<>>
    /\ api_calls = <<>>
    /\ trace = <<>>
    /\ answer_by = "none"
    /\ response = [ok |-> TRUE, status |-> 0, body |-> <<>>]
    /\ history = <<>>
    /\ reqs = <<>>
    /\ heap = <<>>

NextRun == RouterNode \/ PolicyAgent \/ FinishNode

SpecLive == InitRun /\ [][NextRun]_vars /\ Fairness

\* The extractor alone, applied to every text of ExtractInputs.
InitExtract ==
    /\ variant = "web"
    /\ llm_mode = "free"
    /\ \E text \in ExtractInputs :
        /\ request = text
        /\ state = [StateDefaults EXCEPT !.user_message = text]
    /\ pc = "extract"
    /\ policy_no = None
    /\ exc = None
    /\ stub = {}
    /\ llm_calls = <<>>
    /\ api_calls = <<>>
    /\ trace = <<>>
    /\ answer_by = "none"
    /\ response = [ok |-> TRUE, status |-> 0, body |-> <<>>]
    /\ history = <<>>
    /\ reqs = <<>>
    /\ heap = <<>>

Extract ==
    /\ pc = "extract"
    /\ policy_no' = extract_policy_number(state.user_message)
    /\ pc' = "extracted"
    /\ UNCHANGED <<reqs, heap, variant, llm_mode, request, state, exc, stub, llm_calls,
                   api_calls, trace, answer_by, response, history>>

NextExtract == Extract

SpecExtract == InitExtract /\ [][NextExtract]_vars

\* ---------------------------------------------------------------------
\* Concurrent requests to /chat (main.py)
\* ---------------------------------------------------------------------
\* Each call of chat() runs the graph on the State it constructed itself;
\* the calls share the completion service, here a deterministic stub. The
\* steps of different requests interleave at the granularity of graph nodes.
RequestIds == 1..MaxRequests

\* A module-level State shared by every request.
OwnerShared(i) == 1

\* The State instance request i works on: the local "state" of its chat() call.
Owner(i) == i

\* "interleaved" records that the request ran a node between two nodes of
\* another request.
NewRequest ==
    [pc |-> "new", message |-> None, trace |-> <<>>, exc |-> None,
     response |-> None, interleaved |-> FALSE]

\* Another request has run its router and has not yet left the graph.
OthersMidRun(i) ==
    \E j \in RequestIds \ {i} : reqs[j].pc \in {"policy_agent", "finish"}

InitConc ==
    /\ variant = "web"
    /\ llm_mode = "stub"
    /\ request = None
    /\ pc = "concurrent"
    /\ state = StateDefaults
    /\ policy_no = None
    /\ exc = None
    /\ stub = {}
    /\ llm_calls = <<>>
    /\ api_calls = <<>>
    /\ trace = <<>>
    /\ answer_by = "none"
    /\ response = [ok |-> TRUE, status |-> 0, body |-> <<>>]
    /\ history = <<>>
    /\ reqs = [i \in RequestIds |-> NewRequest]
    /\ heap = [i \in RequestIds |-> StateDefaults]

\* Messages of the concurrent requests.
ConcMessages == {ScenarioA, ScenarioB}

\* The variables only the sequential boundary uses.
seq_vars == <<variant, llm_mode, request, pc, state, policy_no, exc, llm_calls,
              api_calls, trace, answer_by, response, history>>

\* Request i's node returns state s2 and goes on to next.
CReturn(i, node, s2, next) ==
    /\ heap' = [heap EXCEPT ![Owner(i)] = s2]
    /\ reqs' = [reqs EXCEPT ![i].pc = next, ![i].trace = Append(@, node),
                            ![i].interleaved = @ \/ OthersMidRun(i)]

\* Request i's llm.invoke raised in node.
CRaise(i, node, out) ==
    /\ reqs' = [reqs EXCEPT ![i].pc = OnRaise(node), ![i].exc = out.content,
                            ![i].trace = Append(@, node),
                            ![i].interleaved = @ \/ OthersMidRun(i)]
    /\ heap' = heap

\* Request i's llm.invoke(messages), made by node, has outcome out.
CInvoke(node, messages, out) ==
    /\ out \in LlmOutcomes(node, messages)
    /\ stub' = Memo(messages, out)

CReceive(i) ==
    /\ reqs[i].pc = "new"
    /\ \E raw \in ConcMessages :
        /\ heap' = [heap EXCEPT ![Owner(i)] = NewState(UserInput(raw))]
        /\ reqs' = [reqs EXCEPT ![i].pc = "router", ![i].message = raw]
    /\ UNCHANGED <<seq_vars, stub>>

CRouterNode(i) ==
    /\ reqs[i].pc = "router"
    /\ LET s == heap[Owner(i)]
       IN  \E out \in Outcomes("router") :
             /\ CInvoke("router", RouterPrompt(s), out)
             /\ IF out.ok
                THEN LET s2 == router_node(s, out.content)
                     IN  CReturn(i, "router", s2, route(s2))
                ELSE CRaise(i, "router", out)
    /\ UNCHANGED seq_vars

CPolicyAgent(i) ==
    /\ reqs[i].pc = "policy_agent"
    /\ LET s == heap[Owner(i)]
           no == extract_policy_number(s.user_message)
       IN  IF ExtractionMiss(no)
           THEN /\ CReturn(i, "policy_agent", [s EXCEPT !.answer = Apology],
                           Edge("policy_agent"))
                /\ stub' = stub
           ELSE \E out \in Outcomes("policy_agent") :
                  /\ CInvoke("policy_agent", PolicyPrompt(s, call_legacy_api(no)), out)
                  /\ IF out.ok
                     THEN CReturn(i, "policy_agent", WithAnswer(s, out.content),
                                  Edge("policy_agent"))
                     ELSE CRaise(i, "policy_agent", out)
    /\ UNCHANGED seq_vars

CFinishNode(i) ==
    /\ reqs[i].pc = "finish"
    /\ LET s == heap[Owner(i)]
       IN  IF NeedsAnswer(s)
           THEN \E out \in Outcomes("finish") :
                  /\ CInvoke("finish", FinishPrompt(s), out)
                  /\ IF out.ok
                     THEN CReturn(i, "finish", WithAnswer(s, out.content), Edge("finish"))
                     ELSE CRaise(i, "finish", out)
           ELSE /\ CReturn(i, "finish", s, Edge("finish"))
                /\ stub' = stub
    /\ UNCHANGED seq_vars

CRespond(i) ==
    /\ reqs[i].pc = "__end__"
    /\ reqs' = [reqs EXCEPT ![i].pc = "done", ![i].response = Reply(heap[Owner(i)])]
    /\ UNCHANGED <<seq_vars, stub, heap>>

CCatch(i) ==
    /\ reqs[i].pc = "raised"
    /\ reqs' = [reqs EXCEPT ![i].pc = "done", ![i].response = ErrorReply(reqs[i].exc),
                            ![i].exc = None]
    /\ UNCHANGED <<seq_vars, stub, heap>>

NextConc ==
    \E i \in RequestIds :
        \/ CReceive(i)
        \/ CRouterNode(i)
        \/ CPolicyAgent(i)
        \/ CFinishNode(i)
        \/ CRespond(i)
        \/ CCatch(i)

SpecConc == InitConc /\ [][NextConc]_vars

\* ---------------------------------------------------------------------
\* Properties
\* ---------------------------------------------------------------------
Last(seq) == seq[Len(seq)]

\* The run in flight has returned from graph.invoke.
Returned == pc = "__end__"

\* The routing signal of the run: the router's completion, normalised.
Signal == Lower(Strip(llm_calls[1].out.content))

\* The router's llm.invoke of the run has returned a completion.
Classified == Len(llm_calls) >= 1 /\ llm_calls[1].node = "router" /\ llm_calls[1].out.ok

\* C1: every run that returns has answer set to a non-empty text (never
\* None, never the empty string), whatever the completions were.
C1_AnswerNonEmpty ==
    Returned => state.answer # None /\ state.answer # <<>>

\* C2: when the routing signal does not contain "yes", the run goes straight
\* to finish, finish invokes the completion service with the two-message
\* prompt (system persona, user = original message) and the returned answer
\* is that completion, stripped.
C2_DirectAnswer ==
    (Returned /\ Classified /\ ~Contains(Signal, Yes)) =>
        /\ trace = <<"router", "finish">>
        /\ Len(llm_calls) = 2
        /\ llm_calls[2].node = "finish"
        /\ llm_calls[2].messages = FinishPrompt(state)
        /\ state.answer = Strip(llm_calls[2].out.content)

\* C3: in every run that returns, the last write to answer was made by
\* policy_agent or by finish_node, never by router_node.
C3_NoSignalLeak ==
    Returned => answer_by \in {"policy_agent", "finish"}

ABC123 == <<"A","B","C","1","2","3">>

\* C4: for "Tell me about policy ABC123" with the router's completion
\* "yes, call the system", the extractor yields "ABC123", the legacy API is
\* called with "ABC123" and the returned answer is the record-grounded
\* completion, stripped.
C4_ScenarioB ==
    (Returned /\ Classified /\ state.user_message = ScenarioB
        /\ llm_calls[1].out.content = ReplyYesCall) =>
        /\ policy_no = ABC123
        /\ api_calls = <<ABC123>>
        /\ Len(llm_calls) = 2
        /\ llm_calls[2].node = "policy_agent"
        /\ state.answer = Strip(llm_calls[2].out.content)

\* C5: for "yes please help" with the router's completion "yes",
\* policy_agent finds no identifier and the returned answer is the apology.
C5_ScenarioC ==
    (Returned /\ Classified /\ state.user_message = ScenarioC
        /\ llm_calls[1].out.content = Yes) =>
        /\ policy_no = None
        /\ state.answer = Apology

\* policy_agent has run in the run in flight.
AgentRan == Len(trace) >= 2 /\ trace[2] = "policy_agent"

\* C6: when the extractor finds no identifier in the user message and the
\* router routes to policy_agent, policy_agent sets answer to the apology
\* without calling the legacy API or the completion service, finish_node
\* changes nothing, and the returned answer is the apology.
C6_ExtractionMiss ==
    (AgentRan /\ extract_policy_number(state.user_message) = None) =>
        /\ pc \in {"finish", "__end__", "idle", "exited"}
        /\ state.answer = Apology
        /\ answer_by = "policy_agent"
        /\ api_calls = <<>>
        /\ Len(llm_calls) = 1
        /\ llm_calls[1].node = "router"
        /\ pc = "idle" => response = [ok |-> TRUE,
                                      status |-> IF variant = "web" THEN 200 ELSE 0,
                                      body |-> Apology]

C6_Witness ==
    /\ pc = "idle"
    /\ trace = <<"router", "policy_agent", "finish">>
    /\ policy_no = None
    /\ state.user_message = ScenarioA
    /\ response.body = Apology

\* A run of exactly IdLen letters and digits starts at character p of text:
\* the characters next to it, if any, are not word characters.
IsRun(text, p) ==
    /\ p + IdLen - 1 <= Len(text)
    /\ \A k \in 0..(IdLen - 1) :
          IsUpper(text[p + k]) \/ IsLower(text[p + k]) \/ IsDigit(text[p + k])
    /\ p = 1 \/ ~IsWordChar(text[p - 1])
    /\ p + IdLen > Len(text) \/ ~IsWordChar(text[p + IdLen])

\* C7: for every text the extractor returns None exactly when the text has
\* no run of exactly 6 letters and digits bounded by word boundaries, and
\* otherwise a token of 6 upper-case letters and digits that equals,
\* ignoring case, the leftmost such run.
C7_Extractor ==
    pc = "extracted" =>
        LET text == state.user_message
            runs == {p \in 1..Len(text) : IsRun(text, p)}
        IN  IF runs = {}
            THEN policy_no = None
            ELSE LET first == CHOOSE p \in runs : \A q \in runs : p <= q
                 IN  /\ policy_no # None
                     /\ Len(policy_no) = 6
                     /\ \A i \in 1..Len(policy_no) :
                           IsUpper(policy_no[i]) \/ IsDigit(policy_no[i])
                     /\ Lower(policy_no) = Lower(SubSeq(text, first, first + 5))

C7_Witness ==
    /\ pc = "extracted"
    /\ state.user_message = ScenarioB
    /\ policy_no = <<"P","O","L","I","C","Y">>

\* C8: after the router's completion, the run goes to policy_agent if and
\* only if the completion, stripped and lower-cased, contains "yes"; in
\* every other case, the empty completion included, it goes to finish.
C8_RoutingRule ==
    (Classified /\ pc # "router") =>
        LET next == IF Len(trace) >= 2 THEN trace[2] ELSE pc
        IN  IF Contains(Signal, Yes) THEN next = "policy_agent" ELSE next = "finish"

C8_Witness ==
    /\ Classified
    /\ llm_calls[1].out.content = ReplyYesterday
    /\ AgentRan

\* Indices of the llm.invoke calls of the run that raised.
FailedCalls == {i \in 1..Len(llm_calls) : ~llm_calls[i].out.ok}

\* C9: when the completion service raises in a stage, the pipeline does not
\* catch it, does not retry, runs no later stage and returns no state; the
\* boundary catches it, reports an error text and waits for the next message.
C9_FailurePropagation ==
    /\ Returned => FailedCalls = {}
    /\ FailedCalls # {} =>
        /\ FailedCalls = {Len(llm_calls)}
        /\ Last(trace) = Last(llm_calls).node
        /\ \A i \in 1..(Len(llm_calls) - 1) :
              llm_calls[i].messages # Last(llm_calls).messages
        /\ pc \in {"raised", "idle", "exited"}
        /\ pc = "raised" => exc = Last(llm_calls).out.content
        /\ pc = "idle" =>
            /\ ~response.ok
            /\ response.status = (IF variant = "web" THEN 500 ELSE 0)
            /\ response.body =
                  (IF variant = "web" THEN ErrorPrefix ELSE ConsoleErrorPrefix)
                      \o Last(llm_calls).out.content
            /\ Last(history).body = response.body
            /\ Last(history).trace = trace

\* A request that raised in policy_agent was reported, and the boundary then
\* served the next request.
C9_Witness ==
    /\ Len(history) = 2
    /\ ~history[1].ok
    /\ history[1].trace = <<"router", "policy_agent">>
    /\ history[2].ok

\* C10: with a deterministic completion service, any two runs on the same
\* message visit the same nodes and end with the same answer.
C10_Determinism ==
    \A i, j \in 1..Len(history) :
        history[i].message = history[j].message =>
            /\ history[i].trace = history[j].trace
            /\ history[i].ok = history[j].ok
            /\ history[i].body = history[j].body

C10_Witness ==
    /\ Len(history) = 2
    /\ history[1].message = ScenarioB
    /\ history[2].message = ScenarioB
    /\ history[1].ok
    /\ history[1].trace = <<"router", "policy_agent", "finish">>

\* What the deterministic stub has answered to a prompt (none or one outcome).
StubLookup(messages) == {e.out : e \in {x \in stub : x.messages = messages}}

\* The reply of a request that cannot be computed from the stub's answers.
Unknown == [ok |-> FALSE, status |-> 0, body |-> None]

\* The reply to the state s entering finish, for a request running alone.
AloneFinish(s) ==
    IF s.answer # None THEN [ok |-> TRUE, status |-> 200, body |-> s.answer]
    ELSE LET r == StubLookup(FinishPrompt(s))
         IN  IF r = {} THEN Unknown
             ELSE LET out == CHOOSE o \in r : TRUE
                  IN  IF out.ok
                      THEN [ok |-> TRUE, status |-> 200, body |-> Strip(out.content)]
                      ELSE [ok |-> FALSE, status |-> 500, body |-> ErrorPrefix \o out.content]

\* The reply to the state s entering policy_agent, for a request running alone.
AloneAgent(s) ==
    LET no == extract_policy_number(s.user_message)
    IN  IF no = None THEN AloneFinish([s EXCEPT !.answer = Apology])
        ELSE LET r == StubLookup(PolicyPrompt(s, call_legacy_api_web(no)))
             IN  IF r = {} THEN Unknown
                 ELSE LET out == CHOOSE o \in r : TRUE
                      IN  IF out.ok
                          THEN AloneFinish([s EXCEPT !.answer = Strip(out.content)])
                          ELSE [ok |-> FALSE, status |-> 500,
                                body |-> ErrorPrefix \o out.content]

\* The reply /chat gives to message m when the request runs alone against the
\* same deterministic stub.
Alone(m) ==
    LET s0 == [user_message |-> m, last_api_result |-> None, answer |-> None]
        r == StubLookup(RouterPrompt(s0))
    IN  IF r = {} THEN Unknown
        ELSE LET out == CHOOSE o \in r : TRUE
             IN  IF ~out.ok
                 THEN [ok |-> FALSE, status |-> 500, body |-> ErrorPrefix \o out.content]
                 ELSE LET s1 == [s0 EXCEPT !.answer = Lower(Strip(out.content))]
                      IN  IF Contains(s1.answer, Yes) THEN AloneAgent(s1)
                          ELSE AloneFinish(s1)

\* Every finished request got the reply it would get alone.
C11_SameAsAlone ==
    \A i \in DOMAIN reqs :
        reqs[i].pc = "done" => reqs[i].response = Alone(reqs[i].message)

\* A step changes a State instance only together with its owner's position:
\* no request's step touches another request's State.
C11_OwnStateOnly ==
    \A j \in DOMAIN heap : heap'[j] # heap[j] => reqs'[j] # reqs[j]

\* C11: under every interleaving of the node steps of concurrent requests,
\* each request's reply equals the reply it would get running alone, and no
\* step of one request writes another request's State.
C11_Isolation == []C11_SameAsAlone /\ [][C11_OwnStateOnly]_vars

\* Two requests with different messages have run their nodes interleaved and
\* both have been answered, differently.
C11_Witness ==
    /\ reqs # <<>>
    /\ reqs[1].interleaved
    /\ reqs[2].interleaved
    /\ reqs[1].pc = "done"
    /\ reqs[2].pc = "done"
    /\ reqs[1].message = ScenarioB
    /\ reqs[2].message = ScenarioA
    /\ reqs[1].response.ok
    /\ reqs[1].trace = <<"router", "policy_agent", "finish">>
    /\ reqs[1].response # reqs[2].response

\* C12: every run executes router once and first, policy_agent at most once
\* and only right after router, finish right after policy_agent whether or
\* not an identifier was found, finish exactly once and last on every run
\* that completes; nothing runs after END.
C12_StageOrder ==
    /\ trace \in {<<>>, <<"router">>, <<"router", "finish">>,
                  <<"router", "policy_agent">>,
                  <<"router", "policy_agent", "finish">>}
    /\ pc = "router" => trace = <<>>
    /\ pc = "policy_agent" => trace = <<"router">>
    /\ pc = "finish" => trace \in {<<"router">>, <<"router", "policy_agent">>}
    /\ pc = "__end__" =>
          trace \in {<<"router", "finish">>, <<"router", "policy_agent", "finish">>}
    /\ (trace = <<"router", "policy_agent">> /\ FailedCalls = {}) => pc = "finish"
    /\ (pc \in {"idle", "exited"} /\ trace # <<>> /\ FailedCalls = {}) =>
          Last(trace) = "finish"

\* A run that found no identifier in policy_agent has still gone through
\* finish before END.
C12_Witness ==
    /\ pc = "__end__"
    /\ trace = <<"router", "policy_agent", "finish">>
    /\ policy_no = None

\* C13: when the router routes to policy_agent and the extractor returns an
\* identifier X, the legacy API is called exactly once, with X; the
\* completion service is then invoked exactly once with a system message
\* followed by a user message carrying the serialised record of that call;
\* the answer is that completion, stripped, and finish_node leaves it alone.
C13_RecordGrounded ==
    (AgentRan /\ policy_no # None) =>
        /\ api_calls = <<policy_no>>
        /\ policy_no = Upper(policy_no)
        /\ Len(llm_calls) = 2
        /\ llm_calls[2].node = "policy_agent"
        /\ Len(llm_calls[2].messages) = 2
        /\ llm_calls[2].messages[1].role = "system"
        /\ llm_calls[2].messages[2].role = "user"
        /\ llm_calls[2].messages[2].text =
              Dumps(IF variant = "web" THEN call_legacy_api_web(api_calls[1])
                    ELSE call_legacy_api_console(api_calls[1]))
        /\ llm_calls[2].out.ok =>
              /\ pc \in {"finish", "__end__", "idle", "exited"}
              /\ state.answer = Strip(llm_calls[2].out.content)
              /\ answer_by = "policy_agent"
              /\ pc = "idle" => response.body = Strip(llm_calls[2].out.content)

C13_Witness ==
    /\ pc = "idle"
    /\ variant = "console"
    /\ state.user_message = BareId
    /\ api_calls = <<ABC123>>
    /\ trace = <<"router", "policy_agent", "finish">>
    /\ response.body = <<"R","K">>

\* A step of finish_node: it leaves the state and makes no llm.invoke call
\* when answer is set on entry, and makes an llm.invoke call only when answer
\* is unset on entry.
C14_FinishStep ==
    pc = "finish" =>
        /\ state.answer # None => (state' = state /\ llm_calls' = llm_calls)
        /\ llm_calls' # llm_calls => state.answer = None

\* C14: finish_node entered with answer already set leaves answer,
\* user_message and last_api_result unchanged and does not call the
\* completion service; it calls it only when answer is unset on entry.
C14_FinishFrame == [][C14_FinishStep]_vars

\* finish_node has run on an answer that was set and has left it alone.
C14_Witness ==
    /\ pc = "__end__"
    /\ trace = <<"router", "finish">>
    /\ state.answer = ReplyNo
    /\ Len(llm_calls) = 1

\* A request is inside the graph or has just left it.
InFlight == pc \in {"router", "policy_agent", "finish", "__end__", "raised"}

\* C15: user_message is the message the State was created with in every
\* state of a run, and no node changes it.
C15_UserMessageWriteOnce ==
    /\ [](InFlight => state.user_message = (IF variant = "console"
                                            THEN Strip(request) ELSE request))
    /\ [][InFlight => state'.user_message = state.user_message]_vars

C15_Witness ==
    /\ pc = "__end__"
    /\ trace = <<"router", "policy_agent", "finish">>
    /\ request = ScenarioB
    /\ state.user_message = ScenarioB
    /\ state.answer = Yes

\* No node occurs twice in the run's trace.
NoNodeTwice == \A i, j \in 1..Len(trace) : trace[i] = trace[j] => i = j

\* C16: every run that has entered the graph reaches END or raises, after at
\* most three nodes and without entering a node twice.
C16_Termination ==
    /\ [](Len(trace) <= 3 /\ NoNodeTwice)
    /\ (pc = "router") ~> (pc \in {"__end__", "raised"})

C16_Witness ==
    /\ pc = "__end__"
    /\ Len(trace) = 3
    /\ Len(llm_calls) = 2
    /\ state.answer = <<>>

\* C17: in every llm.invoke call system messages precede user messages;
\* router_node sends exactly one user message, policy_agent and finish_node
\* exactly one system message followed by exactly one user message.
C17_RoleOrder ==
    \A k \in 1..Len(llm_calls) :
        LET roles == [m \in 1..Len(llm_calls[k].messages) |->
                         llm_calls[k].messages[m].role]
        IN  /\ \A a, b \in 1..Len(roles) :
                  (roles[a] = "system" /\ roles[b] = "user") => a < b
            /\ llm_calls[k].node = "router" => Len(roles) = 1 /\ roles[1] = "user"
            /\ llm_calls[k].node \in {"policy_agent", "finish"} =>
                  Len(roles) = 2 /\ roles[1] = "system" /\ roles[2] = "user"

C17_Witness ==
    /\ Len(llm_calls) = 2
    /\ llm_calls[1].node = "router"
    /\ llm_calls[2].node = "policy_agent"
    /\ llm_calls[2].messages[1].role = "system"
    /\ ~llm_calls[2].out.ok

\* C18: once router_node has returned, answer is a text, never None, so
\* finish_node never calls the completion service; a run that returns has
\* made one llm.invoke call when it went straight to finish or found no
\* identifier, two when policy_agent found an identifier, and no run makes
\* more than two.
C18_FallbackNeverCalls ==
    /\ (Classified /\ pc # "router") => state.answer # None
    /\ \A k \in 1..Len(llm_calls) : llm_calls[k].node # "finish"
    /\ Len(llm_calls) <= 2
    /\ Returned =>
          Len(llm_calls) = (IF AgentRan /\ extract_policy_number(state.user_message) # None
                            THEN 2 ELSE 1)

C18_Witness ==
    /\ Returned
    /\ trace = <<"router", "finish">>
    /\ state.answer = <<>>
    /\ Len(llm_calls) = 1

\* C19: the legacy API is called at most once per run, and only after a
\* routing signal containing "yes" and with the identifier the extractor
\* found in user_message; never on the direct path or on an extraction miss.
C19_RecordSourceCalls ==
    /\ Len(api_calls) <= 1
    /\ api_calls # <<>> =>
          /\ Classified
          /\ Contains(Signal, Yes)
          /\ AgentRan
          /\ extract_policy_number(state.user_message) # None
          /\ api_calls[1] = extract_policy_number(state.user_message)
    /\ (Len(trace) >= 2 /\ trace[2] = "finish") => api_calls = <<>>
    /\ (AgentRan /\ extract_policy_number(state.user_message) = None) => api_calls = <<>>

C19_Witness ==
    /\ pc = "finish"
    /\ state.user_message = ScenarioC
    /\ api_calls = << <<"P","L","E","A","S","E">> >>
    /\ llm_calls[1].out.content = ReplyYesUpper

\* C20: last_api_result is None in every state; no node writes it, not even
\* policy_agent after a successful call of the legacy API.
C20_LastApiResultUnset == state.last_api_result = None

C20_Witness ==
    /\ pc = "finish"
    /\ api_calls # <<>>
    /\ answer_by = "policy_agent"
    /\ state.answer = <<"R","K">>
    /\ state.last_api_result = None

====
